---------------------------- MODULE Spec2Model ----------------------------
(***************************************************************************)
(* Search and indexing subsystem of the educational platform:              *)
(* search_service.py (three Whoosh indexes, upsert, delete, search_whoosh)  *)
(* and the request handlers of main.py that keep the indexes in step with   *)
(* the database (db.py).                                                    *)
(*                                                                         *)
(* Strings are TLA+ strings over a small vocabulary; tokenisation and case  *)
(* folding are computed word by word.  Python's None is the value None.     *)
(***************************************************************************)
EXTENDS Integers, Sequences, FiniteSets, TLC

\* ------------------------------------------------------------------------
\* Bounds of the model
\* ------------------------------------------------------------------------
MaxCourseId == 2
MaxMaterialId == 1
MaxUserId == 2
MaxLimit == 2

CourseIds == 1..MaxCourseId
MaterialIds == 1..MaxMaterialId
UserIds == 1..MaxUserId

\* ------------------------------------------------------------------------
\* Python values
\* ------------------------------------------------------------------------
None == "None"

\* bool(s) of an Optional[str]: None and "" are falsy
Truthy(s) == s \notin {None, ""}

\* str(n) and int(s) for the ids the model uses
Digits == <<"1", "2", "3", "4", "5", "6", "7", "8", "9">>
ToStr(n) == Digits[n]
ToInt(s) == CHOOSE n \in 1..Len(Digits) : Digits[n] = s

\* ------------------------------------------------------------------------
\* Text analysis (whoosh.analysis / whoosh.fields as configured by the schemas)
\* ------------------------------------------------------------------------
\* str.lower() of one word
LowerWord(w) ==
  CASE w = "Data" -> "data"
    [] w = "Science" -> "science"
    [] w = "Py" -> "py"
    [] w = "Java" -> "java"
    [] w = "Ann" -> "ann"
    [] w = "Bob" -> "bob"
    [] w = "Video" -> "video"
    [] OTHER -> w

\* the words of a string, split at white space, in order
SplitWs(s) ==
  CASE s = "" -> <<>>
    [] s = None -> <<>>
    [] s = "Data Science" -> <<"Data", "Science">>
    [] s = "data science" -> <<"data", "science">>
    [] s = "Py Java" -> <<"Py", "Java">>
    [] s = "py java" -> <<"py", "java">>
    [] OTHER -> <<s>>

\* joins words with single blanks (inverse of SplitWs on the vocabulary)
JoinWs(ws) ==
  CASE ws = <<>> -> ""
    [] ws = <<"data", "science">> -> "data science"
    [] ws = <<"py", "java">> -> "py java"
    [] Len(ws) = 1 -> ws[1]
    [] OTHER -> "?"

\* str.lower()
Lower(s) == IF s = None THEN None ELSE JoinWs([i \in 1..Len(SplitWs(s)) |-> LowerWord(SplitWs(s)[i])])

Range(f) == {f[i] : i \in DOMAIN f}

\* a word with the query-syntax characters (quote, backslash) taken off, as the
\* tokenizer of StandardAnalyzer leaves it
StripPunct(w) ==
  CASE w = "\"py" -> "py"
    [] w = "\\\"py" -> "py"
    [] OTHER -> w

\* KEYWORD(lowercase=True): terms are the white-space separated words, lowercased
KeywordTerms(s) == {LowerWord(w) : w \in Range(SplitWs(s))}

\* TEXT(analyzer=StandardAnalyzer()): terms are the words, lowercased
TextTerms(s) == {LowerWord(StripPunct(w)) : w \in Range(SplitWs(s))}

\* ------------------------------------------------------------------------
\* Query parsing (whoosh.qparser as search_whoosh uses it)
\* ------------------------------------------------------------------------
\* strings on which QueryParser.parse raises QueryParserError (unbalanced quote)
ParseRaises(s) == s \in {"\"py"}

\* QueryParser.escape: the syntax characters are backslash-escaped
escape(s) ==
  CASE s = "\"py" -> "\\\"py"
    [] OTHER -> s

KeywordFields == {"category", "level", "material_type"}

\* the terms a field's analysis makes of a string
FieldTerms(f, s) == IF f \in KeywordFields THEN KeywordTerms(s) ELSE TextTerms(s)

\* parser.parse(s) of a parser over `fields` of index `schema` with group g
\* ("Or" / "And"): every word of s is looked up in every field of the parser
parse(schema, fields, g, s) ==
  [schema |-> schema, group |-> g, fields |-> fields, words |-> Range(SplitWs(s))]

\* field_boost of the schemas, doubled to stay in the integers
\* (title of a course 2.0, title of a material 1.5, name of a teacher 2.0)
field_boost(schema, f) ==
  CASE schema = "courses" /\ f = "title" -> 4
    [] schema = "materials" /\ f = "title" -> 3
    [] schema = "teachers" /\ f = "name" -> 4
    [] OTHER -> 2

\* the (word, field) pairs of query q that document d contains
Postings(q, d) ==
  {p \in q.words \X q.fields :
     /\ FieldTerms(p[2], p[1]) # {}
     /\ FieldTerms(p[2], p[1]) \subseteq FieldTerms(p[2], d[p[2]])}

WordFound(q, d, w) == \E f \in q.fields : <<w, f>> \in Postings(q, d)

\* does document d match parsed query q
Matches(q, d) ==
  IF q.group = "Or"
    THEN \E w \in q.words : WordFound(q, d, w)
    ELSE q.words # {} /\ \A w \in q.words : WordFound(q, d, w)

RECURSIVE SumBoost(_, _)
SumBoost(schema, ps) ==
  IF ps = {} THEN 0
  ELSE LET p == CHOOSE x \in ps : TRUE
       IN field_boost(schema, p[2]) + SumBoost(schema, ps \ {p})

\* hit.score: grows with every matched (word, field) pair, weighted by the boost
Score(q, d) == SumBoost(q.schema, Postings(q, d))

\* whoosh.query.Or(parts): a document matches when it matches some part
OrMatches(parts, d) == \E i \in DOMAIN parts : Matches(parts[i], d)

\* whoosh.query.And(parts): a document matches when it matches every part
AndMatches(parts, d) == \A i \in DOMAIN parts : Matches(parts[i], d)

RECURSIVE AndScore(_, _)
AndScore(parts, d) ==
  IF parts = <<>> THEN 0 ELSE Score(Head(parts), d) + AndScore(Tail(parts), d)

Min(a, b) == IF a <= b THEN a ELSE b

Take(seq, n) == SubSeq(seq, 1, Min(n, Len(seq)))

\* results ordered by score, highest first; equal scores in document order
Better(x, y) ==
  \/ x.score > y.score
  \/ x.score = y.score /\ ToInt(x.doc.db_id) <= ToInt(y.doc.db_id)

RECURSIVE Ranked(_)
Ranked(S) ==
  IF S = {} THEN <<>>
  ELSE LET b == CHOOSE x \in S : \A y \in S : Better(x, y)
       IN <<b>> \o Ranked(S \ {b})

\* searcher.search(And(parts), limit=limit) over the documents `docs`
searcher_search(docs, parts, limit) ==
  Take(Ranked({[doc |-> d, score |-> AndScore(parts, d)] : d \in {e \in docs : AndMatches(parts, e)}}),
       limit)

\* ------------------------------------------------------------------------
\* search_whoosh, section by section
\* ------------------------------------------------------------------------
\* the free-text clause without the fallback: the parse error is raised
text_query_no_fallback(schema, fields, g, s) ==
  [exc |-> ParseRaises(s), q |-> parse(schema, fields, g, s)]

\* the free-text clause: parse, and on a parse error parse the escaped string
text_query(schema, fields, g, s) ==
  IF ParseRaises(s)
    THEN [exc |-> ParseRaises(escape(s)), q |-> parse(schema, fields, g, escape(s))]
    ELSE [exc |-> FALSE, q |-> parse(schema, fields, g, s)]

\* a filter clause: QueryParser(field, schema).parse(s), default group And,
\* not guarded by the escape fallback
filter_query(schema, field, s) ==
  [exc |-> ParseRaises(s), q |-> parse(schema, {field}, "And", s)]

NoHits == [exc |-> FALSE, hits |-> <<>>]

\* runs the clauses (each [exc, q]) as one And query; an exception in any
\* clause aborts the section
run_query(docs, clauses, limit) ==
  IF \E i \in DOMAIN clauses : clauses[i].exc
    THEN [exc |-> TRUE, hits |-> <<>>]
    ELSE IF clauses = <<>>
      THEN NoHits
      ELSE [exc |-> FALSE,
            hits |-> searcher_search(docs, [i \in DOMAIN clauses |-> clauses[i].q], limit)]

course_hit(r) ==
  [id |-> ToInt(r.doc.db_id), title |-> r.doc.title, type |-> "course",
   category |-> r.doc.category, level |-> r.doc.level,
   teacher_name |-> r.doc.teacher_name, material_type_field |-> None,
   course_title |-> None, relevance_score |-> r.score]

\* the title of a material hit is "<title> (из курса: <course_title_ref>)":
\* both parts are kept, in title and course_title
material_hit(r) ==
  [id |-> ToInt(r.doc.db_id), title |-> r.doc.title, type |-> "material",
   category |-> None, level |-> None, teacher_name |-> None,
   material_type_field |-> r.doc.material_type,
   course_title |-> r.doc.course_title_ref, relevance_score |-> r.score]

teacher_hit(r) ==
  [id |-> ToInt(r.doc.db_id), title |-> r.doc.name, type |-> "teacher",
   category |-> None, level |-> None, teacher_name |-> None,
   material_type_field |-> None, course_title |-> None,
   relevance_score |-> r.score]

MapHits(rs, Hit(_)) == [i \in DOMAIN rs |-> Hit(rs[i])]

course_section(docs, a) ==
  LET fc == IF Truthy(a.filter_category)
              THEN <<filter_query("courses", "category", Lower(a.filter_category))>> ELSE <<>>
      fl == IF Truthy(a.filter_level)
              THEN <<filter_query("courses", "level", Lower(a.filter_level))>> ELSE <<>>
      ft == IF Truthy(a.filter_teacher_name)
              THEN <<filter_query("courses", "teacher_name", a.filter_teacher_name)>> ELSE <<>>
      tq == IF Truthy(a.query_str)
              THEN <<text_query("courses", {"title", "teacher_name"}, "Or", a.query_str)>> ELSE <<>>
      res == run_query(docs, tq \o fc \o fl \o ft, a.limit)
  IN [exc |-> res.exc, hits |-> MapHits(res.hits, course_hit)]

material_section(docs, a) ==
  LET fm == IF Truthy(a.filter_material_type)
              THEN <<filter_query("materials", "material_type", Lower(a.filter_material_type))>>
              ELSE <<>>
      tq == IF Truthy(a.query_str)
              THEN <<text_query("materials", {"title", "course_title_ref"}, "Or", a.query_str)>>
              ELSE <<>>
      res == run_query(docs, tq \o fm, a.limit)
  IN [exc |-> res.exc, hits |-> MapHits(res.hits, material_hit)]

\* the operands the other way round: query_str or filter_teacher_name
query_str_first(filter_teacher_name, query_str) ==
  IF Truthy(query_str) THEN query_str ELSE filter_teacher_name

\* teacher_query_text = filter_teacher_name or query_str
teacher_query_text(filter_teacher_name, query_str) ==
  IF Truthy(filter_teacher_name) THEN filter_teacher_name ELSE query_str

teacher_section(docs, a) ==
  LET text == teacher_query_text(a.filter_teacher_name, a.query_str)
      tq == IF Truthy(text)
              THEN <<text_query("teachers", {"name"}, "Or", text)>> ELSE <<>>
      res == run_query(docs, tq, a.limit)
  IN [exc |-> res.exc, hits |-> MapHits(res.hits, teacher_hit)]

\* the except clause missing: the exception leaves the section
no_except(section) == section

\* try: ... except Exception: print(...) around each section
try_except(section) ==
  [exc |-> FALSE, hits |-> IF section.exc THEN <<>> ELSE section.hits]

\* the list left in the order the sections appended to it
append_order(s) == s

\* list.sort(key=relevance_score, reverse=True): stable, highest score first
RECURSIVE sort_by_score(_)
InsertHit(h, s) ==
  LET before == SelectSeq(s, LAMBDA x : x.relevance_score > h.relevance_score)
      after == SelectSeq(s, LAMBDA x : x.relevance_score <= h.relevance_score)
  IN before \o <<h>> \o after
sort_by_score(s) ==
  IF s = <<>> THEN <<>> ELSE InsertHit(Head(s), sort_by_score(Tail(s)))

courses_enabled(flag, handle) == flag /\ handle # None
materials_enabled(flag, handle) == flag /\ handle # None
teachers_unconditional(flag, handle) == handle # None
teachers_enabled(flag, handle) == flag /\ handle # None

\* searcher.search on an index whose files cannot be read raises
read_index(status, section) ==
  IF status = "valid" THEN section ELSE [exc |-> TRUE, hits |-> <<>>]

\* search_whoosh once the handles hc, hm, ht are those left by the lazy
\* initialisation; dir holds the documents of the three indexes and dsk says
\* which of them can be read
search_whoosh_on(dsk, hc, hm, ht, dir, a) ==
  IF hc = None \/ hm = None \/ ht = None
    THEN [raised |-> FALSE, hits |-> <<>>]
    ELSE
      LET c == IF courses_enabled(a.search_in_courses, hc)
                 THEN try_except(read_index(dsk.courses, course_section(dir.courses, a)))
                 ELSE NoHits
          m == IF materials_enabled(a.search_in_materials, hm)
                 THEN try_except(read_index(dsk.materials, material_section(dir.materials, a)))
                 ELSE NoHits
          t == IF teachers_enabled(a.search_in_teachers, ht)
                 THEN try_except(read_index(dsk.teachers, teacher_section(dir.teachers, a)))
                 ELSE NoHits
      IN [raised |-> c.exc \/ m.exc \/ t.exc,
          hits |-> IF c.exc \/ m.exc \/ t.exc THEN <<>>
                   ELSE Take(sort_by_score(c.hits \o m.hits \o t.hits), a.limit)]

\* search_whoosh over indexes that can all be read
search_whoosh(hc, hm, ht, dir, a) ==
  search_whoosh_on([courses |-> "valid", materials |-> "valid", teachers |-> "valid"],
                   hc, hm, ht, dir, a)

\* ------------------------------------------------------------------------
\* State
\* ------------------------------------------------------------------------
VARIABLES
  ix_courses,    \* search_service.ix_courses: None or the open index
  ix_materials,  \* search_service.ix_materials
  ix_teachers,   \* search_service.ix_teachers
  index_dir,     \* INDEX_DIR: the documents stored in each of the three indexes
  db_users,      \* table users: id -> row
  db_courses,    \* table courses: id -> row
  db_materials,  \* table materials: id -> row
  issued,        \* history: the last write applied per index and id
  ret,           \* the last call or request and what it returned
  disk,          \* what each index directory holds on disk: see DiskStates
  lock,          \* the processes holding the write lock of each index
  procs,         \* the writer and reader processes: where each is in its call
  commits        \* history: the committed contents each index has had

vars == <<ix_courses, ix_materials, ix_teachers, index_dir,
          db_users, db_courses, db_materials, issued, ret,
          disk, lock, procs, commits>>

\* the index directories as files and the processes working on them
infra == <<disk, lock, procs, commits>>

handles == <<ix_courses, ix_materials, ix_teachers>>
db == <<db_users, db_courses, db_materials>>

IndexNames == {"courses", "materials", "teachers"}

IdsOf(ix) ==
  CASE ix = "courses" -> CourseIds
    [] ix = "materials" -> MaterialIds
    [] ix = "teachers" -> UserIds

\* the arguments index_course_item is called with
CourseInputs ==
  { [title |-> "Py", category |-> "Data", level |-> "beginner", teacher_name |-> "Ann"],
    [title |-> "Java", category |-> "Data Science", level |-> "advanced", teacher_name |-> "Bob"],
    [title |-> "Py", category |-> "Data Science", level |-> "beginner", teacher_name |-> None] }

MaterialInputs ==
  { [title |-> "Py", material_type |-> "video", course_id_ref |-> 1, course_title_ref |-> "Py"],
    [title |-> "Java", material_type |-> "text", course_id_ref |-> 1, course_title_ref |-> "Java"] }

TeacherNames == {"Ann", "Bob"}

DocIds(docs) == {ToInt(d.db_id) : d \in docs}
DocsOf(docs, id) == {d \in docs : d.db_id = ToStr(id)}

\* the facet counts search_whoosh returns, per facet field a function from
\* value to count: it returns all_search_results[:limit], the hit list alone,
\* and counts nothing
search_whoosh_facets(dir, a) ==
  [categories |-> <<>>, levels |-> <<>>, material_types |-> <<>>, teachers |-> <<>>]

\* ------------------------------------------------------------------------
\* Index store and document writer (search_service.py)
\* ------------------------------------------------------------------------
\* get_or_create_index: a missing directory gives a new empty index, an
\* existing one is opened with its documents
get_or_create_index(exists, docs) == IF ~exists THEN {} ELSE docs

\* writer.add_document without the delete of the old document
add_document(docs, doc) == docs \cup {doc}

\* writer.update_document: db_id is unique=True, so the documents with the same
\* db_id are deleted before the new one is added
update_document(docs, doc) == {d \in docs : d.db_id # doc.db_id} \cup {doc}

\* a delete that matches every document of the index
delete_every_document(docs, id) == {}

\* a delete by a term no document has: the field name passed as the value
delete_by_field_name(docs, id) == {d \in docs : d.db_id # "db_id"}

\* writer.delete_by_term('db_id', str(db_id))
delete_by_term(docs, id) == {d \in docs : d.db_id # id}

\* _index_item(index_obj, "db_id", value, **fields): no index object, no write
_index_item(index_obj, dir, doc) ==
  IF index_obj = None THEN dir
  ELSE [dir EXCEPT ![index_obj] = update_document(@, doc)]

index_course_item(dir, db_id, title, category, level, teacher_name) ==
  _index_item(ix_courses, dir,
    [db_id |-> ToStr(db_id), title |-> title, category |-> category, level |-> level,
     teacher_name |-> IF Truthy(teacher_name) THEN teacher_name ELSE ""])

index_material_item(dir, db_id, title, material_type, course_id_ref, course_title_ref) ==
  _index_item(ix_materials, dir,
    [db_id |-> ToStr(db_id), title |-> title, material_type |-> material_type,
     course_id_ref |-> ToStr(course_id_ref), course_title_ref |-> course_title_ref])

index_teacher_item(dir, db_id, name) ==
  _index_item(ix_teachers, dir, [db_id |-> ToStr(db_id), name |-> name])

delete_item_from_index(index_obj, dir, db_id) ==
  IF index_obj = None THEN dir
  ELSE [dir EXCEPT ![index_obj] = delete_by_term(@, ToStr(db_id))]

\* the documents the three upserts are asked to write
CourseDoc(id, f) ==
  [db_id |-> ToStr(id), title |-> f.title, category |-> f.category, level |-> f.level,
   teacher_name |-> IF f.teacher_name = None THEN "" ELSE f.teacher_name]

MaterialDoc(id, f) ==
  [db_id |-> ToStr(id), title |-> f.title, material_type |-> f.material_type,
   course_id_ref |-> ToStr(f.course_id_ref), course_title_ref |-> f.course_title_ref]

TeacherDoc(id, n) == [db_id |-> ToStr(id), name |-> n]

\* history of the writes an index object has taken, per id: none yet, an
\* upsert (with the document asked for) or a delete
Never == [w |-> "none"]
Upserted(doc) == [w |-> "upsert", doc |-> doc]
Deleted(had) == [w |-> "delete", had |-> had]

Issue(index_obj, id, what) ==
  IF index_obj = None THEN issued
  ELSE [issued EXCEPT ![index_obj][id] = what]

\* did the index hold another document for this id before the call
Replaces(index_obj, id, doc) ==
  index_obj # None /\ DocsOf(index_dir[index_obj], id) \notin {{}, {doc}}

Ret(op, args, status, hits) == [op |-> op, args |-> args, status |-> status, hits |-> hits]

\* ------------------------------------------------------------------------
\* Calls into search_service
\* ------------------------------------------------------------------------
init_whoosh_indexes ==
  /\ ix_courses' = "courses"
  /\ ix_materials' = "materials"
  /\ ix_teachers' = "teachers"
  /\ index_dir' = [ix \in IndexNames |-> get_or_create_index(TRUE, index_dir[ix])]
  /\ ret' = Ret("init_whoosh_indexes", <<>>, "ok", <<>>)
  /\ UNCHANGED <<db, issued, infra>>

Call_index_course_item ==
  \E id \in CourseIds, f \in CourseInputs :
    /\ index_dir' = index_course_item(index_dir, id, f.title, f.category, f.level, f.teacher_name)
    /\ issued' = Issue(ix_courses, id, Upserted(CourseDoc(id, f)))
    /\ ret' = Ret("index_course_item",
                  [index |-> ix_courses, db_id |-> id,
                   replaced |-> Replaces(ix_courses, id, CourseDoc(id, f))], "ok", <<>>)
    /\ UNCHANGED <<handles, db, infra>>

Call_index_material_item ==
  \E id \in MaterialIds, f \in {m \in MaterialInputs : m.title = "Py"} :
    /\ index_dir' = index_material_item(index_dir, id, f.title, f.material_type,
                                        f.course_id_ref, f.course_title_ref)
    /\ issued' = Issue(ix_materials, id, Upserted(MaterialDoc(id, f)))
    /\ ret' = Ret("index_material_item",
                  [index |-> ix_materials, db_id |-> id,
                   replaced |-> Replaces(ix_materials, id, MaterialDoc(id, f))], "ok", <<>>)
    /\ UNCHANGED <<handles, db, infra>>

Call_index_teacher_item ==
  \E id \in UserIds, n \in {"Ann"} :
    /\ index_dir' = index_teacher_item(index_dir, id, n)
    /\ issued' = Issue(ix_teachers, id, Upserted(TeacherDoc(id, n)))
    /\ ret' = Ret("index_teacher_item",
                  [index |-> ix_teachers, db_id |-> id,
                   replaced |-> Replaces(ix_teachers, id, TeacherDoc(id, n))], "ok", <<>>)
    /\ UNCHANGED <<handles, db, infra>>

Call_delete_item_from_index ==
  \E index_obj \in {ix_courses, ix_materials, ix_teachers} :
    \E id \in (IF index_obj = None THEN CourseIds ELSE IdsOf(index_obj)) :
      /\ index_dir' = delete_item_from_index(index_obj, index_dir, id)
      /\ issued' = Issue(index_obj, id,
                         Deleted(index_obj # None /\ DocsOf(index_dir[index_obj], id) # {}))
      /\ ret' = Ret("delete_item_from_index", [index |-> index_obj, db_id |-> id], "ok", <<>>)
      /\ UNCHANGED <<handles, db, infra>>

\* the arguments of search_whoosh, with the defaults of its signature
DefaultArgs ==
  [query_str |-> None, search_in_courses |-> TRUE, search_in_materials |-> TRUE,
   search_in_teachers |-> TRUE, filter_category |-> None, filter_level |-> None,
   filter_material_type |-> None, filter_teacher_name |-> None, limit |-> MaxLimit]

QueryStrings == {None, "py", "ann", "\"py"}

SearchArgs ==
  [query_str : QueryStrings,
   search_in_courses : BOOLEAN, search_in_materials : BOOLEAN, search_in_teachers : BOOLEAN,
   filter_category : {None, "Data", "Data Science"},
   filter_level : {None, "beginner"},
   filter_material_type : {None, "Video"},
   filter_teacher_name : {None, "Ann"},
   limit : {1, MaxLimit}]

\* the searches issued between writes
FewSearchArgs ==
  { [DefaultArgs EXCEPT !.query_str = "py java"],
    [DefaultArgs EXCEPT !.query_str = "ann"],
    [DefaultArgs EXCEPT !.filter_category = "Data", !.filter_material_type = "Video",
                        !.filter_teacher_name = "Ann"] }

\* search_whoosh(**a): initialises the indexes first when they are not open
Do_search_whoosh(a) ==
  LET lazy == ix_courses = None \/ ix_materials = None \/ ix_teachers = None
      hc == IF lazy THEN "courses" ELSE ix_courses
      hm == IF lazy THEN "materials" ELSE ix_materials
      ht == IF lazy THEN "teachers" ELSE ix_teachers
      dir == IF lazy THEN [ix \in IndexNames |-> get_or_create_index(TRUE, index_dir[ix])]
             ELSE index_dir
      r == search_whoosh(hc, hm, ht, dir, a)
  IN /\ ix_courses' = hc
     /\ ix_materials' = hm
     /\ ix_teachers' = ht
     /\ index_dir' = dir
     /\ ret' = Ret("search_whoosh", a, IF r.raised THEN "raised" ELSE "ok", r.hits)
     /\ UNCHANGED <<db, issued, infra>>

Call_search_whoosh == \E a \in FewSearchArgs : Do_search_whoosh(a)

\* ------------------------------------------------------------------------
\* Specification of the search service: any sequence of calls
\* ------------------------------------------------------------------------
NoWrites == [ix \in IndexNames |-> [id \in IdsOf(ix) |-> Never]]

\* one process, every index directory a valid index, nobody writing
Procs == {1, 2, 3}
Idle == [pc |-> "idle"]
InfraIdle ==
  /\ disk = [ix \in IndexNames |-> "valid"]
  /\ lock = [ix \in IndexNames |-> {}]
  /\ procs = [p \in Procs |-> Idle]
  /\ commits = [ix \in IndexNames |-> {}]

Init ==
  /\ ix_courses = None
  /\ ix_materials = None
  /\ ix_teachers = None
  /\ index_dir = [ix \in IndexNames |-> {}]
  /\ db_users = <<>>
  /\ db_courses = <<>>
  /\ db_materials = <<>>
  /\ issued = NoWrites
  /\ ret = Ret("start", <<>>, "ok", <<>>)
  /\ InfraIdle

Next ==
  \/ init_whoosh_indexes
  \/ Call_index_course_item
  \/ Call_index_material_item
  \/ Call_index_teacher_item
  \/ Call_delete_item_from_index
  \/ Call_search_whoosh

Spec == Init /\ [][Next]_vars

\* ------------------------------------------------------------------------
\* Specification of search_whoosh as a function: the indexes hold any
\* documents the writers can have left, one search is run
\* ------------------------------------------------------------------------
CourseDocs(id) == {CourseDoc(id, f) : f \in CourseInputs}
MaterialDocs(id) == {MaterialDoc(id, f) : f \in MaterialInputs}
TeacherDocs(id) == {TeacherDoc(id, n) : n \in TeacherNames}

\* the sets holding at most one document of Docs(id) per id
Indexes(ids, Docs(_)) ==
  {D \in SUBSET (UNION {Docs(id) : id \in ids}) :
     \A d1, d2 \in D : d1.db_id = d2.db_id => d1 = d2}

InitSearch ==
  /\ ix_courses = None
  /\ ix_materials = None
  /\ ix_teachers = None
  /\ index_dir \in [courses : Indexes(CourseIds, CourseDocs),
                    materials : Indexes(MaterialIds, MaterialDocs),
                    teachers : Indexes(UserIds, TeacherDocs)]
  /\ db_users = <<>>
  /\ db_courses = <<>>
  /\ db_materials = <<>>
  /\ issued = [ix \in IndexNames |-> [id \in IdsOf(ix) |->
                 IF DocsOf(index_dir[ix], id) = {} THEN Never
                 ELSE Upserted(CHOOSE d \in DocsOf(index_dir[ix], id) : TRUE)]]
  /\ ret = Ret("start", <<>>, "ok", <<>>)
  /\ InfraIdle

Run_search_whoosh ==
  /\ ret.op = "start"
  /\ \E a \in SearchArgs : Do_search_whoosh(a)

SpecSearch == InitSearch /\ [][Run_search_whoosh]_vars

\* ------------------------------------------------------------------------
\* Specification of the free-text search: the indexes hold any documents the
\* writers can have left, one search by text alone is run
\* ------------------------------------------------------------------------
TextQueries == {"py", "ann", "data", "beginner"}

TextArgs ==
  {[DefaultArgs EXCEPT !.query_str = q, !.search_in_materials = m, !.search_in_teachers = t] :
     q \in TextQueries, m \in BOOLEAN, t \in BOOLEAN}

Run_text_search ==
  /\ ret.op = "start"
  /\ \E a \in TextArgs : Do_search_whoosh(a)

SpecText == InitSearch /\ [][Run_text_search]_vars

\* ------------------------------------------------------------------------
\* The request handlers of main.py
\* ------------------------------------------------------------------------
\* main.py binds ix_courses, ix_materials, ix_teachers with
\* "from search_service import ...": copies of the values at import time, when
\* the three are still None; init_whoosh_indexes rebinds search_service's own
main_ix_courses == None
main_ix_materials == None
main_ix_teachers == None

\* parameter names of the functions of search_service
index_course_item_params == {"db_id", "title", "category", "level", "teacher_name"}
index_material_item_params ==
  {"db_id", "title", "material_type", "course_id_ref", "course_title_ref"}
search_whoosh_params ==
  {"query_str", "search_in_courses", "search_in_materials", "search_in_teachers",
   "filter_category", "filter_level", "filter_material_type", "filter_teacher_name", "limit"}

\* a Python call binds when every keyword names a parameter and the positional
\* arguments are no more than the parameters; otherwise it raises TypeError
CallBinds(params, positional, keywords) ==
  keywords \subseteq params /\ positional + Cardinality(keywords) <= Cardinality(params)

\* attributes of the mapped classes of db.py; the declarative constructor
\* raises TypeError for a keyword that is none of them
CourseAttrs ==
  {"id", "title", "description", "category", "level", "teacher_id", "created_at",
   "teacher", "materials"}
MaterialAttrs ==
  {"id", "course_id", "title", "content", "type", "order_index", "created_at",
   "course", "activities"}

\* fields of the pydantic models CourseBase and MaterialBase
CourseBaseFields == {"title", "description", "category", "level", "teacher_id", "tags"}
MaterialBaseFields == {"title", "content", "type", "course_id", "order_index"}

DBCourse(kwargs) == kwargs \subseteq CourseAttrs
DBMaterial(kwargs) == kwargs \subseteq MaterialAttrs

\* request bodies
UserInputs ==
  { [name |-> "Ann", email |-> "ann@x", role |-> "teacher"],
    [name |-> "Bob", email |-> "bob@x", role |-> "teacher"],
    [name |-> "Root", email |-> "root@x", role |-> "admin"],
    [name |-> "Sam", email |-> "sam@x", role |-> "student"] }

CourseSeeds ==
  { [title |-> "Py", category |-> "Data", level |-> "beginner"],
    [title |-> "Java", category |-> "Data Science", level |-> "advanced"] }

\* teacher_id 0 stands for NULL (no teacher); ids start at 1
NoTeacher == 0

CourseRows ==
  {[title |-> c.title, category |-> c.category, level |-> c.level, teacher_id |-> NoTeacher] :
     c \in CourseSeeds}

CourseCreateInputs ==
  {[title |-> c.title, category |-> c.category, level |-> c.level, teacher_id |-> t] :
     c \in {x \in CourseSeeds : x.title = "Py"}, t \in {NoTeacher, 1}}

\* CourseUpdate bodies: the set keys (exclude_unset) and their values
CourseUpdateInputs ==
  { [keys |-> {"title"}, title |-> "Java", teacher_id |-> NoTeacher],
    [keys |-> {"teacher_id"}, title |-> "", teacher_id |-> 1],
    [keys |-> {"teacher_id", "tags"}, title |-> "", teacher_id |-> NoTeacher] }

MaterialCreateInputs ==
  {[title |-> "Py", type |-> "video", course_id |-> c] : c \in CourseIds}

Without(f, ks) == [x \in DOMAIN f \ ks |-> f[x]]
With(f, k, v) == [x \in DOMAIN f \cup {k} |-> IF x = k THEN v ELSE f[x]]

MaxOf(S) == IF S = {} THEN 0 ELSE CHOOSE x \in S : \A y \in S : y <= x

\* require_role(*roles)
require_role(current_user, roles) == db_users[current_user].role \in roles

IsTeacher(id) == id \in DOMAIN db_users /\ db_users[id].role = "teacher"

ApiRet(op, args, status) == Ret(op, args, status, <<>>)

\* the upsert issued ahead of the commit: it is written whether or not the
\* commit goes through
before_commit(commit_ok, written, dir) == written

\* await db.commit() and then index_*_item(...): a commit that raises ends
\* the handler before the upsert; written is the index directory the upsert
\* leaves, dir the one it found
after_commit(commit_ok, written, dir) == IF commit_ok THEN written ELSE dir

\* POST /users/register
register_new_user_api ==
  \E user_in \in UserInputs, commit_ok \in BOOLEAN :
    IF \E id \in DOMAIN db_users : db_users[id].email = user_in.email
      THEN /\ ret' = ApiRet("register_new_user_api", [role |-> user_in.role, id |-> 0], 400)
           /\ UNCHANGED <<handles, index_dir, db, issued, infra>>
      ELSE LET id == Len(db_users) + 1
               indexed == user_in.role = "teacher"
               written == IF indexed THEN index_teacher_item(index_dir, id, user_in.name)
                          ELSE index_dir
           IN
           /\ id <= MaxUserId
           /\ db_users' = IF commit_ok THEN Append(db_users, user_in) ELSE db_users
           /\ index_dir' = after_commit(commit_ok, written, index_dir)
           /\ issued' = IF commit_ok /\ indexed
                          THEN Issue(ix_teachers, id, Upserted(TeacherDoc(id, user_in.name)))
                          ELSE issued
           /\ ret' = ApiRet("register_new_user_api", [role |-> user_in.role, id |-> id],
                            IF commit_ok THEN 201 ELSE 500)
           /\ UNCHANGED <<handles, db_courses, db_materials, infra>>

TeacherName(id) == IF IsTeacher(id) THEN db_users[id].name ELSE ""

Respond(op, args, status) ==
  /\ ret' = ApiRet(op, args, status)
  /\ UNCHANGED <<handles, index_dir, db, issued, infra>>

\* POST /courses
create_course_api ==
  \E current_user \in DOMAIN db_users, course_in \in CourseCreateInputs, commit_ok \in BOOLEAN :
    LET op == "create_course_api"
        role == db_users[current_user].role
        final_teacher_id == IF role = "teacher" THEN current_user ELSE course_in.teacher_id
        teacher_name_for_index == TeacherName(final_teacher_id)
        id == MaxOf(DOMAIN db_courses) + 1
        args == [current_user |-> current_user, id |-> id]
        binds == CallBinds(index_course_item_params, 0,
                           index_course_item_params \cup {"description", "tags"})
        written == IF binds
                     THEN index_course_item(index_dir, id, course_in.title, course_in.category,
                                            course_in.level, teacher_name_for_index)
                     ELSE index_dir
    IN IF ~require_role(current_user, {"admin", "teacher"})
         THEN Respond(op, args, 403)
       ELSE IF role # "teacher" /\ final_teacher_id # NoTeacher /\ ~IsTeacher(final_teacher_id)
         THEN Respond(op, args, 400)
       ELSE IF ~DBCourse(CourseBaseFields \cup {"created_at"})
         THEN Respond(op, args, 500)   \* TypeError: 'tags' is no attribute of Course
       ELSE /\ id <= MaxCourseId
            /\ db_courses' = IF commit_ok
                               THEN With(db_courses, id,
                                      [title |-> course_in.title, category |-> course_in.category,
                                       level |-> course_in.level, teacher_id |-> final_teacher_id])
                               ELSE db_courses
            /\ index_dir' = after_commit(commit_ok, written, index_dir)
            /\ issued' = IF commit_ok /\ binds
                           THEN Issue(ix_courses, id,
                                      Upserted(CHOOSE d \in DocsOf(index_dir'.courses, id) : TRUE))
                           ELSE issued
            \* TypeError of the upsert's call, after the commit
            /\ ret' = ApiRet(op, args, IF commit_ok /\ binds THEN 201 ELSE 500)
            /\ UNCHANGED <<handles, db_users, db_materials, infra>>

\* the ownership check left out
always_authorized(role, teacher_id, current_user) == FALSE

\* current_user.role == "teacher" and course.teacher_id != current_user.id
not_authorized(role, teacher_id, current_user) ==
  role = "teacher" /\ teacher_id # current_user

\* PATCH /courses/{course_id}
update_course_api ==
  \E current_user \in DOMAIN db_users, course_id \in CourseIds,
     course_update \in CourseUpdateInputs, commit_ok \in BOOLEAN :
    LET op == "update_course_api"
        role == db_users[current_user].role
        args == [current_user |-> current_user, id |-> course_id]
        update_data == course_update.keys
        new_teacher == "teacher_id" \in update_data /\ course_update.teacher_id # NoTeacher
    IN IF ~require_role(current_user, {"admin", "teacher"})
         THEN Respond(op, args, 403)
       ELSE IF course_id \notin DOMAIN db_courses
         THEN Respond(op, args, 404)
       ELSE IF not_authorized(role, db_courses[course_id].teacher_id, current_user)
         THEN Respond(op, args, 403)
       ELSE IF new_teacher /\ role = "teacher" /\ course_update.teacher_id # current_user
         THEN Respond(op, args, 403)
       ELSE IF new_teacher /\ ~IsTeacher(course_update.teacher_id)
         THEN Respond(op, args, 400)
       ELSE
         LET old == db_courses[course_id]
             row == [old EXCEPT
                       !.title = IF "title" \in update_data THEN course_update.title ELSE @,
                       !.teacher_id = IF "teacher_id" \in update_data
                                        THEN course_update.teacher_id ELSE @]
             final_teacher_name == TeacherName(row.teacher_id)
             binds == /\ "tags" \in update_data    \* else AttributeError: Course has no tags
                      /\ CallBinds(index_course_item_params, 0,
                                   index_course_item_params \cup {"description", "tags"})
             written == IF binds
                          THEN index_course_item(index_dir, course_id, row.title, row.category,
                                                 row.level, final_teacher_name)
                          ELSE index_dir
         IN /\ db_courses' = IF commit_ok THEN [db_courses EXCEPT ![course_id] = row]
                               ELSE db_courses
            /\ index_dir' = after_commit(commit_ok, written, index_dir)
            /\ issued' = IF commit_ok /\ binds
                           THEN Issue(ix_courses, course_id,
                                      Upserted(CHOOSE d \in DocsOf(index_dir'.courses, course_id) : TRUE))
                           ELSE issued
            /\ ret' = ApiRet(op, args, IF commit_ok /\ binds THEN 200 ELSE 500)
            /\ UNCHANGED <<handles, db_users, db_materials, infra>>

RECURSIVE delete_items(_, _, _)
delete_items(index_obj, dir, ids) ==
  IF ids = {} THEN dir
  ELSE LET id == CHOOSE x \in ids : TRUE
       IN delete_items(index_obj, delete_item_from_index(index_obj, dir, id), ids \ {id})

IssueAll(index_obj, iss, ids, what) ==
  IF index_obj = None THEN iss
  ELSE [iss EXCEPT ![index_obj] = [id \in DOMAIN @ |-> IF id \in ids THEN what ELSE @[id]]]

MaterialsOf(course_id) == {m \in DOMAIN db_materials : db_materials[m].course_id = course_id}

\* DELETE /courses/{course_id}
delete_course_api ==
  \E current_user \in DOMAIN db_users, course_id \in CourseIds :
    LET op == "delete_course_api"
        role == db_users[current_user].role
        args == [current_user |-> current_user, id |-> course_id]
    IN IF ~require_role(current_user, {"admin", "teacher"})
         THEN Respond(op, args, 403)
       ELSE IF course_id \notin DOMAIN db_courses
         THEN Respond(op, args, 404)
       ELSE IF not_authorized(role, db_courses[course_id].teacher_id, current_user)
         THEN Respond(op, args, 403)
       ELSE /\ index_dir' = delete_items(main_ix_materials,
                              delete_item_from_index(main_ix_courses, index_dir, course_id),
                              MaterialsOf(course_id))
            /\ issued' = IssueAll(main_ix_materials,
                                  IssueAll(main_ix_courses, issued, {course_id}, Deleted(TRUE)),
                                  MaterialsOf(course_id), Deleted(TRUE))
            /\ db_courses' = Without(db_courses, {course_id})
            /\ db_materials' = Without(db_materials, MaterialsOf(course_id))   \* cascade
            /\ ret' = ApiRet(op, args, 204)
            /\ UNCHANGED <<handles, db_users, infra>>

\* POST /materials
create_material_api ==
  \E current_user \in DOMAIN db_users, material_in \in MaterialCreateInputs,
     commit_ok \in BOOLEAN :
    LET op == "create_material_api"
        role == db_users[current_user].role
        id == MaxOf(DOMAIN db_materials) + 1
        args == [current_user |-> current_user, id |-> id, course_id |-> material_in.course_id]
        binds == CallBinds(index_material_item_params, 0,
                           index_material_item_params \cup {"content"})
        written == IF binds
                     THEN index_material_item(index_dir, id, material_in.title, material_in.type,
                                              material_in.course_id,
                                              db_courses[material_in.course_id].title)
                     ELSE index_dir
    IN IF ~require_role(current_user, {"admin", "teacher"})
         THEN Respond(op, args, 403)
       ELSE IF material_in.course_id \notin DOMAIN db_courses
         THEN Respond(op, args, 400)
       ELSE IF not_authorized(role, db_courses[material_in.course_id].teacher_id, current_user)
         THEN Respond(op, args, 403)
       ELSE IF ~DBMaterial(MaterialBaseFields \cup {"created_at"})
         THEN Respond(op, args, 500)
       ELSE /\ id <= MaxMaterialId
            /\ db_materials' = IF commit_ok
                                 THEN With(db_materials, id,
                                        [title |-> material_in.title, type |-> material_in.type,
                                         course_id |-> material_in.course_id])
                                 ELSE db_materials
            /\ index_dir' = after_commit(commit_ok, written, index_dir)
            /\ issued' = IF commit_ok /\ binds
                           THEN Issue(ix_materials, id,
                                      Upserted(CHOOSE d \in DocsOf(index_dir'.materials, id) : TRUE))
                           ELSE issued
            \* TypeError of the upsert's call, after the commit
            /\ ret' = ApiRet(op, args, IF commit_ok /\ binds THEN 201 ELSE 500)
            /\ UNCHANGED <<handles, db_users, db_courses, infra>>

\* GET /search: query parameters (tags is the set of tags asked for, empty for none)
NoRequest ==
  [q |-> None, category |-> None, level |-> None, tags |-> {}, material_type |-> None,
   teacher_name |-> None]

SearchRequests ==
  { NoRequest,
    [NoRequest EXCEPT !.q = ""],
    [NoRequest EXCEPT !.q = "py"],
    [NoRequest EXCEPT !.category = "Data"],
    [NoRequest EXCEPT !.teacher_name = "Ann"],
    [NoRequest EXCEPT !.tags = {"java"}],
    [NoRequest EXCEPT !.q = "py", !.tags = {"python", "java"}] }

\* course_schema declares no tags field and index_course_item takes no tags:
\* no document carries a tag
doc_tags(d) == {}

\* the validation left out: every request goes on to search_whoosh
any_skipped(request) == TRUE

\* any([query, category, level, tags, material_type, teacher_name])
any_supplied(request) ==
  \/ Truthy(request.q)
  \/ Truthy(request.category)
  \/ Truthy(request.level)
  \/ request.tags # {}
  \/ Truthy(request.material_type)
  \/ Truthy(request.teacher_name)

\* what the handler's answer records of its call of search_whoosh
Answered(request, call) ==
  [x \in DOMAIN request \cup {"search_whoosh"} |->
     IF x = "search_whoosh" THEN call ELSE request[x]]

search_content_api ==
  \E request \in SearchRequests :
    LET op == "search_content_api"
    IN IF ~any_supplied(request)
         THEN Respond(op, Answered(request, "not called"), 400)
       ELSE IF ~CallBinds(search_whoosh_params, 0, search_whoosh_params \cup {"filter_tags"})
         THEN \* TypeError: unexpected keyword filter_tags
              Respond(op, Answered(request, "TypeError"), 500)
       ELSE \* search_whoosh runs, but the one list it returns does not unpack
            \* into (results, facets)
            /\ ix_courses' = "courses"
            /\ ix_materials' = "materials"
            /\ ix_teachers' = "teachers"
            /\ ret' = ApiRet(op, Answered(request, "returned"), 500)
            /\ UNCHANGED <<index_dir, db, issued, infra>>

\* the loops of _perform_full_reindex over the rows of a table
RECURSIVE reindex_courses(_, _)
reindex_courses(dir, ids) ==
  IF ids = {} THEN dir
  ELSE LET id == CHOOSE x \in ids : TRUE
           course == db_courses[id]
       IN reindex_courses(
            index_course_item(dir, id, course.title, course.category, course.level,
                              TeacherName(course.teacher_id)),
            ids \ {id})

RECURSIVE reindex_materials(_, _)
reindex_materials(dir, ids) ==
  IF ids = {} THEN dir
  ELSE LET id == CHOOSE x \in ids : TRUE
           material == db_materials[id]
       IN reindex_materials(
            index_material_item(dir, id, material.title, material.type, material.course_id,
                                IF material.course_id \in DOMAIN db_courses
                                  THEN db_courses[material.course_id].title ELSE "N/A"),
            ids \ {id})

RECURSIVE reindex_teachers(_, _)
reindex_teachers(dir, ids) ==
  IF ids = {} THEN dir
  ELSE LET id == CHOOSE x \in ids : TRUE
       IN reindex_teachers(index_teacher_item(dir, id, db_users[id].name), ids \ {id})

\* the users of every role
AllUsers == DOMAIN db_users

\* select(DBUser).where(DBUser.role == 'teacher')
Teachers == {id \in DOMAIN db_users : db_users[id].role = "teacher"}

\* the body of the answer of POST /admin/search/reindex-all: a message when
\* the rebuild ran through, the HTTPException's detail when it raised
reindex_response(completed) ==
  IF completed THEN [message |-> "Full reindexing process completed (synchronously)."]
  ELSE [detail |-> "Reindexing failed"]

\* POST /admin/search/reindex-all, with _perform_full_reindex inlined: the
\* three sub-directories are removed, the indexes created anew and the tables
\* walked; the first call that does not bind ends the rebuild
trigger_full_reindex_api ==
  \E current_user \in DOMAIN db_users :
    LET op == "trigger_full_reindex_api"
        args == [current_user |-> current_user, id |-> 0, body |-> <<>>]
        cleared == [ix \in IndexNames |-> get_or_create_index(FALSE, index_dir[ix])]
        courses_ok == db_courses = <<>> \/ CallBinds(index_course_item_params, 7, {})
        materials_ok == db_materials = <<>> \/ CallBinds(index_material_item_params, 6, {})
        done_courses == IF courses_ok THEN DOMAIN db_courses ELSE {}
        done_materials == IF courses_ok /\ materials_ok THEN DOMAIN db_materials ELSE {}
        done_teachers == IF courses_ok /\ materials_ok THEN Teachers ELSE {}
    IN IF ~require_role(current_user, {"admin"})
         THEN Respond(op, args, 403)
       ELSE /\ ix_courses' = "courses"
            /\ ix_materials' = "materials"
            /\ ix_teachers' = "teachers"
            /\ index_dir' = reindex_teachers(
                              reindex_materials(reindex_courses(cleared, done_courses),
                                                done_materials),
                              done_teachers)
            /\ issued' = [ix \in IndexNames |-> [id \in IdsOf(ix) |->
                            IF DocsOf(index_dir'[ix], id) = {} THEN Never
                            ELSE Upserted(CHOOSE d \in DocsOf(index_dir'[ix], id) : TRUE)]]
            /\ ret' = ApiRet(op, [args EXCEPT !.body = reindex_response(courses_ok /\ materials_ok)],
                             IF courses_ok /\ materials_ok THEN 202 ELSE 500)
            /\ UNCHANGED <<db, infra>>

\* ------------------------------------------------------------------------
\* Specification of the application: the database and the index directory
\* are what earlier runs left, the indexes are open (startup_event has run)
\* ------------------------------------------------------------------------
MaterialRows(courses) ==
  {[title |-> "Py", type |-> "video", course_id |-> c] : c \in courses}

InitApi ==
  /\ ix_courses = "courses"
  /\ ix_materials = "materials"
  /\ ix_teachers = "teachers"
  /\ db_users = <<>>
  /\ \E S \in SUBSET CourseIds : db_courses \in [S -> CourseRows]
  /\ \E S \in SUBSET MaterialIds : db_materials \in [S -> MaterialRows(DOMAIN db_courses)]
  /\ \E C \in SUBSET DOMAIN db_courses, M \in SUBSET DOMAIN db_materials :
       /\ index_dir = [courses |->
                         {[db_id |-> ToStr(id), title |-> db_courses[id].title,
                           category |-> db_courses[id].category,
                           level |-> db_courses[id].level, teacher_name |-> ""] : id \in C},
                       materials |->
                         {[db_id |-> ToStr(id), title |-> db_materials[id].title,
                           material_type |-> db_materials[id].type,
                           course_id_ref |-> ToStr(db_materials[id].course_id),
                           course_title_ref |-> db_courses[db_materials[id].course_id].title] :
                            id \in M},
                       teachers |-> {}]
       /\ issued = [ix \in IndexNames |-> [id \in IdsOf(ix) |->
                      IF DocsOf(index_dir[ix], id) = {} THEN Never
                      ELSE Upserted(CHOOSE d \in DocsOf(index_dir[ix], id) : TRUE)]]
  /\ ret = Ret("start", <<>>, "ok", <<>>)
  /\ InfraIdle

NextApi ==
  \/ register_new_user_api
  \/ create_course_api
  \/ update_course_api
  \/ delete_course_api
  \/ create_material_api
  \/ search_content_api
  \/ trigger_full_reindex_api

SpecApi == InitApi /\ [][NextApi]_vars

\* ------------------------------------------------------------------------
\* A full rebuild running beside other requests: _perform_full_reindex is a
\* coroutine that gives way at each await of a database query, and other
\* handlers run in between
\* ------------------------------------------------------------------------
Rebuilder == 1

\* issued, once the indexes hold the documents of dir and nothing else counts
IssuedFor(dir) ==
  [ix \in IndexNames |-> [id \in IdsOf(ix) |->
     IF DocsOf(dir[ix], id) = {} THEN Never
     ELSE Upserted(CHOOSE d \in DocsOf(dir[ix], id) : TRUE)]]

\* up to the first await: the sub-directories are removed and
\* init_whoosh_indexes creates the three indexes anew
Reindex_reset ==
  \E current_user \in DOMAIN db_users :
    /\ procs[Rebuilder] = Idle
    /\ require_role(current_user, {"admin"})
    /\ ix_courses' = "courses"
    /\ ix_materials' = "materials"
    /\ ix_teachers' = "teachers"
    /\ index_dir' = [ix \in IndexNames |-> get_or_create_index(FALSE, index_dir[ix])]
    /\ issued' = IssuedFor(index_dir')
    /\ procs' = [procs EXCEPT ![Rebuilder] = [pc |-> "courses", current_user |-> current_user]]
    /\ UNCHANGED <<db, ret, disk, lock, commits>>

\* the request is answered: 202 with the message or 500 with the detail
Reindex_answer(completed) ==
  /\ ret' = ApiRet("trigger_full_reindex_api",
                   [current_user |-> procs[Rebuilder].current_user, id |-> 0,
                    body |-> reindex_response(completed)],
                   IF completed THEN 202 ELSE 500)
  /\ procs' = [procs EXCEPT ![Rebuilder] = Idle]

\* the courses are read and indexed one by one
Reindex_courses ==
  LET courses_ok == db_courses = <<>> \/ CallBinds(index_course_item_params, 7, {})
  IN /\ procs[Rebuilder].pc = "courses"
     /\ IF courses_ok
          THEN /\ index_dir' = reindex_courses(index_dir, DOMAIN db_courses)
               /\ procs' = [procs EXCEPT ![Rebuilder].pc = "materials"]
               /\ UNCHANGED ret
          ELSE /\ Reindex_answer(FALSE)
               /\ UNCHANGED index_dir
     /\ issued' = IssuedFor(index_dir')
     /\ UNCHANGED <<handles, db, disk, lock, commits>>

\* the materials are read and indexed one by one
Reindex_materials ==
  LET materials_ok == db_materials = <<>> \/ CallBinds(index_material_item_params, 6, {})
  IN /\ procs[Rebuilder].pc = "materials"
     /\ IF materials_ok
          THEN /\ index_dir' = reindex_materials(index_dir, DOMAIN db_materials)
               /\ procs' = [procs EXCEPT ![Rebuilder].pc = "teachers"]
               /\ UNCHANGED ret
          ELSE /\ Reindex_answer(FALSE)
               /\ UNCHANGED index_dir
     /\ issued' = IssuedFor(index_dir')
     /\ UNCHANGED <<handles, db, disk, lock, commits>>

\* the teachers are read and indexed one by one, and the request is answered
Reindex_teachers ==
  /\ procs[Rebuilder].pc = "teachers"
  /\ index_dir' = reindex_teachers(index_dir, Teachers)
  /\ issued' = IssuedFor(index_dir')
  /\ Reindex_answer(TRUE)
  /\ UNCHANGED <<handles, db, disk, lock, commits>>

NextReindex ==
  \/ register_new_user_api
  \/ Reindex_reset
  \/ Reindex_courses
  \/ Reindex_materials
  \/ Reindex_teachers

SpecReindex == InitApi /\ [][NextReindex]_vars

\* ------------------------------------------------------------------------
\* Concurrent writers and a reader on the open indexes: several server
\* processes share INDEX_DIR; each call of _index_item and
\* delete_item_from_index is a writer, search_whoosh is a reader
\* ------------------------------------------------------------------------
Writers == {1, 2}
Reader == 3

\* index_obj.writer() with no lock at all
writer_unlocked(holders, p) == [raised |-> FALSE, holders |-> holders \cup {p}]

\* index_obj.writer(): takes the write lock of the index or, when another
\* writer holds it, raises LockError at once (timeout 0.0)
writer(holders, p) ==
  IF holders = {} THEN [raised |-> FALSE, holders |-> {p}]
  ELSE [raised |-> TRUE, holders |-> holders]

\* the pending delete applied to the index at once
uncommitted_delete(docs, id) == delete_by_term(docs, id)

\* what searchers see of update_document / delete_by_term before commit:
\* the committed documents, unchanged
uncommitted(docs, id) == docs

\* writer.commit(): the buffered change becomes the index content in one step
commit(docs, call) ==
  IF call.op = "delete_item_from_index" THEN delete_by_term(docs, call.doc.db_id)
  ELSE update_document(docs, call.doc)

\* ix.searcher(): a reader on the documents committed when it is opened
searcher(docs) == docs

\* the calls the writers make
WriteCalls ==
  {[op |-> "index_course_item", index |-> "courses", id |-> 1, doc |-> CourseDoc(1, f)] :
     f \in {x \in CourseInputs : x.teacher_name # None}}
  \cup {[op |-> "index_teacher_item", index |-> "teachers", id |-> 1, doc |-> TeacherDoc(1, "Ann")]}
  \cup {[op |-> "delete_item_from_index", index |-> "courses", id |-> 1,
         doc |-> [db_id |-> ToStr(1)]]}

\* the searches the reader runs
ReaderArgs == {a \in FewSearchArgs : Truthy(a.query_str)}

WriteOps == {c.op : c \in WriteCalls}

\* what a finished write call leaves: it returns None (status "ok") whether
\* the write was committed or not; error is what its except clause printed
Written(p, call, committed, error, met) ==
  Ret(call.op,
      [index |-> call.index, db_id |-> call.id, proc |-> p, committed |-> committed,
       error |-> error, met |-> met],
      "ok", <<>>)

\* _index_item / delete_item_from_index called with an index object of None
\* (main.py's ix_courses): a warning is printed and the call returns
Writer_no_handle ==
  \E p \in Writers, call \in WriteCalls :
    /\ procs[p] = Idle
    /\ call.op = "delete_item_from_index"
    /\ ret' = Written(p, call, FALSE, "Warning: Index object is None", {})
    /\ UNCHANGED <<handles, index_dir, db, issued, infra>>

\* the call up to writer = index_obj.writer()
Writer_begin ==
  \E p \in Writers, call \in WriteCalls :
    LET w == writer(lock[call.index], p)
    IN /\ procs[p] = Idle
       /\ IF w.raised
            THEN /\ ret' = Written(p, call, FALSE, "LockError", lock[call.index])
                 /\ UNCHANGED <<lock, procs>>
            ELSE /\ lock' = [lock EXCEPT ![call.index] = w.holders]
                 /\ procs' = [procs EXCEPT ![p] = [pc |-> "writing", call |-> call,
                                                  before |-> index_dir[call.index]]]
                 /\ UNCHANGED ret
       /\ UNCHANGED <<handles, index_dir, db, issued, disk, commits>>

\* writer.update_document(**document_data) / writer.delete_by_term(...)
Writer_update ==
  \E p \in Writers :
    /\ procs[p].pc = "writing"
    /\ index_dir' = [index_dir EXCEPT ![procs[p].call.index] =
                       uncommitted(@, procs[p].call.doc.db_id)]
    /\ procs' = [procs EXCEPT ![p].pc = "committing"]
    /\ UNCHANGED <<handles, db, issued, ret, disk, lock, commits>>

\* writer.commit(); an I/O error in it is caught, printed, and the call
\* returns; the writer and its lock go with the call's frame
Writer_commit ==
  \E p \in Writers, io_error \in BOOLEAN :
    LET call == procs[p].call
        ix == call.index
    IN /\ procs[p].pc = "committing"
       /\ IF io_error
            THEN /\ ret' = Written(p, call, FALSE, "OSError", {})
                 /\ UNCHANGED <<index_dir, issued, commits>>
            ELSE /\ index_dir' = [index_dir EXCEPT ![ix] = commit(@, call)]
                 /\ commits' = [commits EXCEPT ![ix] = @ \cup {index_dir'[ix]}]
                 /\ issued' = [issued EXCEPT ![ix][call.id] =
                                 IF call.op = "delete_item_from_index"
                                   THEN Deleted(DocsOf(index_dir[ix], call.id) # {})
                                   ELSE Upserted(call.doc)]
                 /\ ret' = Written(p, call, TRUE, "", {})
       /\ lock' = [lock EXCEPT ![ix] = @ \ {p}]
       /\ procs' = [procs EXCEPT ![p] = Idle]
       /\ UNCHANGED <<handles, db, disk>>

\* search_whoosh: with ix_courses.searcher() as searcher
Reader_open_courses ==
  \E a \in ReaderArgs :
    /\ procs[Reader].pc \in {"idle", "done"}
    /\ procs' = [procs EXCEPT ![Reader] =
                   [pc |-> "courses", a |-> a, courses |-> searcher(index_dir.courses)]]
    /\ UNCHANGED <<handles, index_dir, db, issued, ret, disk, lock, commits>>

\* the course and material sections are done; with ix_teachers.searcher()
Reader_open_teachers ==
  /\ procs[Reader].pc = "courses"
  /\ procs' = [procs EXCEPT ![Reader] =
                 [pc |-> "teachers", a |-> @.a, courses |-> @.courses,
                  teachers |-> searcher(index_dir.teachers)]]
  /\ UNCHANGED <<handles, index_dir, db, issued, ret, disk, lock, commits>>

\* the teacher section is done; sort, cut and return
Reader_return ==
  LET r == procs[Reader]
      view == [courses |-> r.courses, materials |-> index_dir.materials,
               teachers |-> r.teachers]
      res == search_whoosh(ix_courses, ix_materials, ix_teachers, view, r.a)
  IN /\ r.pc = "teachers"
     /\ procs' = [procs EXCEPT ![Reader] =
                    [pc |-> "done", a |-> r.a, courses |-> r.courses,
                     teachers |-> r.teachers, hits |-> res.hits]]
     /\ ret' = Ret("search_whoosh", r.a, IF res.raised THEN "raised" ELSE "ok", res.hits)
     /\ UNCHANGED <<handles, index_dir, db, issued, disk, lock, commits>>

InitWriters ==
  /\ ix_courses = "courses"
  /\ ix_materials = "materials"
  /\ ix_teachers = "teachers"
  /\ index_dir = [ix \in IndexNames |-> {}]
  /\ db_users = <<>>
  /\ db_courses = <<>>
  /\ db_materials = <<>>
  /\ issued = NoWrites
  /\ ret = Ret("start", <<>>, "ok", <<>>)
  /\ disk = [ix \in IndexNames |-> "valid"]
  /\ lock = [ix \in IndexNames |-> {}]
  /\ procs = [p \in Procs |-> Idle]
  /\ commits = [ix \in IndexNames |-> {index_dir[ix]}]

NextWriters ==
  \/ Writer_no_handle
  \/ Writer_begin
  \/ Writer_update
  \/ Writer_commit
  \/ Reader_open_courses
  \/ Reader_open_teachers
  \/ Reader_return

SpecWriters == InitWriters /\ [][NextWriters]_vars

\* ------------------------------------------------------------------------
\* Opening the indexes and searching them when the directories on disk are
\* in any condition
\* ------------------------------------------------------------------------
\* an index directory is missing, exists without an index in it, holds a
\* readable index, or holds index files that cannot be read
DiskStates == {"absent", "empty", "valid", "corrupt"}

\* index.open_dir on an existing directory: the index, EmptyIndexError when
\* the directory holds no index, another exception when its files are damaged
open_dir(status) ==
  CASE status = "valid" -> "opened"
    [] status = "empty" -> "EmptyIndexError"
    [] OTHER -> "Exception"

\* index.create_in whatever the directory holds: a new, empty index
create_in_at(status, docs) == [raised |-> FALSE, status |-> "valid", docs |-> {}]

\* get_or_create_index on a directory in the given condition with the given
\* documents: whether it raises, and the condition and documents it leaves
get_or_create_index_at(status, docs) ==
  IF status = "absent" THEN [raised |-> FALSE, status |-> "valid", docs |-> {}]
  ELSE IF open_dir(status) = "opened" THEN [raised |-> FALSE, status |-> "valid", docs |-> docs]
  ELSE IF open_dir(status) = "EmptyIndexError"
    THEN [raised |-> FALSE, status |-> "valid", docs |-> {}]
  ELSE [raised |-> TRUE, status |-> status, docs |-> docs]

\* init_whoosh_indexes over such directories: the three globals are assigned
\* in turn, and an exception leaves the remaining ones as they were
init_whoosh_indexes_at(hc, hm, ht, dsk, dir) ==
  LET c == get_or_create_index_at(dsk.courses, dir.courses)
      m == get_or_create_index_at(dsk.materials, dir.materials)
      t == get_or_create_index_at(dsk.teachers, dir.teachers)
      nc == ~c.raised
      nm == nc /\ ~m.raised
      nt == nm /\ ~t.raised
  IN [raised |-> ~nt,
      hc |-> IF nc THEN "courses" ELSE hc,
      hm |-> IF nm THEN "materials" ELSE hm,
      ht |-> IF nt THEN "teachers" ELSE ht,
      disk |-> [courses |-> IF nc THEN c.status ELSE dsk.courses,
                materials |-> IF nm THEN m.status ELSE dsk.materials,
                teachers |-> IF nt THEN t.status ELSE dsk.teachers],
      dir |-> [courses |-> IF nc THEN c.docs ELSE dir.courses,
               materials |-> IF nm THEN m.docs ELSE dir.materials,
               teachers |-> IF nt THEN t.docs ELSE dir.teachers]]

\* startup_event: init_whoosh_indexes inside try/except; the error is printed
startup_event ==
  LET r == init_whoosh_indexes_at(ix_courses, ix_materials, ix_teachers, disk, index_dir)
  IN /\ ret.op = "start"
     /\ ix_courses' = r.hc
     /\ ix_materials' = r.hm
     /\ ix_teachers' = r.ht
     /\ disk' = r.disk
     /\ index_dir' = r.dir
     /\ ret' = Ret("startup_event", [error |-> r.raised], "ok", <<>>)
     /\ UNCHANGED <<db, issued, lock, procs, commits>>

\* search_whoosh(**a) over the directories as they are: the lazy
\* initialisation is outside every try, the sections are inside one each
Open_search_whoosh ==
  \E a \in FewSearchArgs :
    LET lazy == ix_courses = None \/ ix_materials = None \/ ix_teachers = None
        r == IF lazy
               THEN init_whoosh_indexes_at(ix_courses, ix_materials, ix_teachers, disk, index_dir)
               ELSE [raised |-> FALSE, hc |-> ix_courses, hm |-> ix_materials,
                     ht |-> ix_teachers, disk |-> disk, dir |-> index_dir]
        res == search_whoosh_on(r.disk, r.hc, r.hm, r.ht, r.dir, a)
    IN /\ ix_courses' = r.hc
       /\ ix_materials' = r.hm
       /\ ix_teachers' = r.ht
       /\ disk' = r.disk
       /\ index_dir' = r.dir
       /\ ret' = Ret("search_whoosh", a,
                     IF r.raised \/ res.raised THEN "raised" ELSE "ok",
                     IF r.raised THEN <<>> ELSE res.hits)
       /\ UNCHANGED <<db, issued, lock, procs, commits>>

\* the documents an index directory holds when it is a valid index
SomeDocs ==
  [courses |-> {CourseDoc(1, f) : f \in {x \in CourseInputs : x.teacher_name = "Ann"}},
   materials |-> {MaterialDoc(1, f) : f \in {x \in MaterialInputs : x.title = "Py"}},
   teachers |-> {TeacherDoc(1, "Ann")}]

\* the process has just started (no index open) and finds the directories in
\* any condition, or it opened its indexes earlier and some of the
\* directories were damaged since
InitOpen ==
  /\ \E opened \in BOOLEAN :
       /\ ix_courses = IF opened THEN "courses" ELSE None
       /\ ix_materials = IF opened THEN "materials" ELSE None
       /\ ix_teachers = IF opened THEN "teachers" ELSE None
       /\ disk \in [IndexNames -> IF opened THEN {"valid", "corrupt"} ELSE DiskStates]
  /\ \E full \in SUBSET IndexNames :
       index_dir = [ix \in IndexNames |->
                      IF disk[ix] \in {"valid", "corrupt"} /\ ix \in full THEN SomeDocs[ix] ELSE {}]
  /\ db_users = <<>>
  /\ db_courses = <<>>
  /\ db_materials = <<>>
  /\ issued = [ix \in IndexNames |-> [id \in IdsOf(ix) |->
                 IF DocsOf(index_dir[ix], id) = {} THEN Never
                 ELSE Upserted(CHOOSE d \in DocsOf(index_dir[ix], id) : TRUE)]]
  /\ ret = Ret("start", <<>>, "ok", <<>>)
  /\ lock = [ix \in IndexNames |-> {}]
  /\ procs = [p \in Procs |-> Idle]
  /\ commits = [ix \in IndexNames |-> {}]

NextOpen ==
  \/ startup_event
  \/ Open_search_whoosh

SpecOpen == InitOpen /\ [][NextOpen]_vars

\* ------------------------------------------------------------------------
\* The three upserts called with any argument values, None included: the
\* functions check none of their arguments
\* ------------------------------------------------------------------------
AnyCourseInputs ==
  [title : {None, "Py"}, category : {None, "Data"}, level : {"beginner"},
   teacher_name : {None, "Ann"}]

AnyMaterialInputs ==
  [title : {None, "Py"}, material_type : {"video"}, course_id_ref : {1},
   course_title_ref : {None, "Py"}]

AnyTeacherNames == {None, "Ann"}

Upsert_course ==
  \E id \in CourseIds, f \in AnyCourseInputs :
    /\ index_dir' = index_course_item(index_dir, id, f.title, f.category, f.level, f.teacher_name)
    /\ issued' = Issue(ix_courses, id, Upserted(CourseDoc(id, f)))
    /\ ret' = Ret("index_course_item", [db_id |-> id, fields |-> f], "ok", <<>>)
    /\ UNCHANGED <<handles, db, infra>>

Upsert_material ==
  \E id \in MaterialIds, f \in AnyMaterialInputs :
    /\ index_dir' = index_material_item(index_dir, id, f.title, f.material_type,
                                        f.course_id_ref, f.course_title_ref)
    /\ issued' = Issue(ix_materials, id, Upserted(MaterialDoc(id, f)))
    /\ ret' = Ret("index_material_item", [db_id |-> id, fields |-> f], "ok", <<>>)
    /\ UNCHANGED <<handles, db, infra>>

Upsert_teacher ==
  \E id \in {1}, n \in AnyTeacherNames :
    /\ index_dir' = index_teacher_item(index_dir, id, n)
    /\ issued' = Issue(ix_teachers, id, Upserted(TeacherDoc(id, n)))
    /\ ret' = Ret("index_teacher_item", [db_id |-> id, fields |-> [name |-> n]], "ok", <<>>)
    /\ UNCHANGED <<handles, db, infra>>

InitUpsert ==
  /\ ix_courses = "courses"
  /\ ix_materials = "materials"
  /\ ix_teachers = "teachers"
  /\ index_dir = [ix \in IndexNames |-> {}]
  /\ db_users = <<>>
  /\ db_courses = <<>>
  /\ db_materials = <<>>
  /\ issued = NoWrites
  /\ ret = Ret("start", <<>>, "ok", <<>>)
  /\ InfraIdle

NextUpsert ==
  \/ Upsert_course
  \/ Upsert_material
  \/ Upsert_teacher

SpecUpsert == InitUpsert /\ [][NextUpsert]_vars

\* ------------------------------------------------------------------------
\* Properties
\* ------------------------------------------------------------------------
TypeIndex(type) ==
  CASE type = "course" -> "courses"
    [] type = "material" -> "materials"
    [] type = "teacher" -> "teachers"

\* ids of the entities of the system of record, per index
EntityIds(ix) ==
  CASE ix = "courses" -> DOMAIN db_courses
    [] ix = "materials" -> DOMAIN db_materials
    [] ix = "teachers" -> Teachers

Hits == {ret.hits[i] : i \in DOMAIN ret.hits}
HitsOfType(type) == {h \in Hits : h.type = type}
Searched == ret.op = "search_whoosh"

\* C1: a document with id X is in its index exactly when entity X is in the
\* database and an upsert was issued for it since its last delete; the course
\* document is present after a successful create_course_api and absent after a
\* successful delete_course_api
C1_Claim ==
  /\ \A ix \in IndexNames : \A id \in IdsOf(ix) :
       id \in DocIds(index_dir[ix]) <=> (id \in EntityIds(ix) /\ issued[ix][id].w = "upsert")
  /\ (ret.op = "create_course_api" /\ ret.status = 201)
       => ret.args.id \in DocIds(index_dir.courses)
  /\ (ret.op = "delete_course_api" /\ ret.status = 204)
       => ret.args.id \notin DocIds(index_dir.courses)

\* C2: every index holds at most one document per db_id, and for an id whose
\* last write was an upsert it holds exactly the document of that upsert
C2_Theorem ==
  \A ix \in IndexNames : \A id \in IdsOf(ix) :
    /\ Cardinality(DocsOf(index_dir[ix], id)) <= 1
    /\ issued[ix][id].w = "upsert" => DocsOf(index_dir[ix], id) = {issued[ix][id].doc}
    /\ DocsOf(index_dir[ix], id) # {} => issued[ix][id].w = "upsert"

\* an upsert has replaced a different document of the same id
C2_Witness ==
  /\ ret.op = "index_course_item"
  /\ ret.args.replaced
  /\ Cardinality(DocsOf(index_dir.courses, ret.args.db_id)) = 1

\* C3: a search returns no hit whose id was deleted from that index and not
\* upserted again since
C3_Theorem ==
  Searched => \A h \in Hits : issued[TypeIndex(h.type)][h.id].w # "delete"

\* a search whose text matches every course runs after a course document was
\* deleted, and still returns another hit
C3_Witness ==
  /\ Searched
  /\ ret.args.query_str = "py java"
  /\ \E id \in CourseIds : issued.courses[id] = Deleted(TRUE)
  /\ Hits # {}

\* the request carries a text or a filter
Supplied(request) ==
  \E k \in {"q", "category", "level", "material_type", "teacher_name"} : Truthy(request[k])

\* C4: every /search request that supplies a text or a filter ends with a
\* response (status 200) carrying hits and facets, never with an error
C4_Claim ==
  (ret.op = "search_content_api" /\ Supplied(ret.args)) => ret.status = 200

NoFilters(a) ==
  /\ ~Truthy(a.filter_category)
  /\ ~Truthy(a.filter_level)
  /\ ~Truthy(a.filter_material_type)
  /\ ~Truthy(a.filter_teacher_name)

\* the words of q taken literally occur in one of the given strings
LiteralIn(q, strings) == \E s \in strings : TextTerms(q) \cap TextTerms(s) # {}

LiteralMatches(a) ==
  [courses |-> {d \in index_dir.courses : LiteralIn(a.query_str, {d.title, d.teacher_name})},
   materials |-> {d \in index_dir.materials : LiteralIn(a.query_str, {d.title, d.course_title_ref})},
   teachers |-> {d \in index_dir.teachers : LiteralIn(a.query_str, {d.name})}]

LiteralCount(a) ==
  (IF a.search_in_courses THEN Cardinality(LiteralMatches(a).courses) ELSE 0)
  + (IF a.search_in_materials THEN Cardinality(LiteralMatches(a).materials) ELSE 0)
  + (IF a.search_in_teachers THEN Cardinality(LiteralMatches(a).teachers) ELSE 0)

\* C5: search_whoosh never raises, and a query string the parser rejects is
\* searched as its literal words: without filters the result holds the
\* documents containing one of the words, up to the limit
C5_Theorem ==
  Searched =>
    /\ ret.status = "ok"
    /\ (ParseRaises(ret.args.query_str) /\ NoFilters(ret.args)) =>
         /\ Len(ret.hits) = Min(ret.args.limit, LiteralCount(ret.args))
         /\ \A h \in Hits :
              \E d \in LiteralMatches(ret.args)[TypeIndex(h.type)] : d.db_id = ToStr(h.id)

\* a rejected query string has produced hits
C5_Witness ==
  /\ Searched
  /\ ParseRaises(ret.args.query_str)
  /\ NoFilters(ret.args)
  /\ Hits # {}

\* C6: after a full reindex over N courses, M materials and K teachers the
\* three indexes hold exactly N, M and K documents
C6_Claim ==
  (ret.op = "trigger_full_reindex_api" /\ ret.status # 403) =>
    /\ ret.status = 202
    /\ Cardinality(index_dir.courses) = Cardinality(DOMAIN db_courses)
    /\ Cardinality(index_dir.materials) = Cardinality(DOMAIN db_materials)
    /\ Cardinality(index_dir.teachers) = Cardinality(Teachers)

\* does a course hit satisfy the clauses of the search a
SatisfiesCategory(h, a) ==
  Truthy(a.filter_category) => KeywordTerms(a.filter_category) \subseteq KeywordTerms(h.category)
SatisfiesLevel(h, a) ==
  Truthy(a.filter_level) => KeywordTerms(a.filter_level) \subseteq KeywordTerms(h.level)
SatisfiesTeacher(h, a) ==
  Truthy(a.filter_teacher_name) =>
    TextTerms(a.filter_teacher_name) \subseteq TextTerms(h.teacher_name)
SatisfiesText(h, a) ==
  Truthy(a.query_str) => LiteralIn(a.query_str, {h.title, h.teacher_name})

\* C7: every course returned satisfies all the supplied filters (category,
\* level, teacher name) and the free-text clause when one is given
C7_Theorem ==
  Searched => \A h \in HitsOfType("course") :
    /\ SatisfiesCategory(h, ret.args)
    /\ SatisfiesLevel(h, ret.args)
    /\ SatisfiesTeacher(h, ret.args)
    /\ SatisfiesText(h, ret.args)

\* text and all three filters are given, a course is returned and another
\* indexed course is left out although the limit has room for it
C7_Witness ==
  /\ Searched
  /\ Truthy(ret.args.query_str)
  /\ Truthy(ret.args.filter_category)
  /\ Truthy(ret.args.filter_level)
  /\ Truthy(ret.args.filter_teacher_name)
  /\ HitsOfType("course") # {}
  /\ Cardinality(index_dir.courses) <= ret.args.limit
  /\ \E d \in index_dir.courses : \A h \in HitsOfType("course") : ToStr(h.id) # d.db_id

OnlyCategory(a) ==
  /\ ~Truthy(a.query_str)
  /\ Truthy(a.filter_category)
  /\ ~Truthy(a.filter_level)
  /\ ~Truthy(a.filter_material_type)
  /\ ~Truthy(a.filter_teacher_name)
  /\ a.search_in_courses

SameCategory(category, c) == Lower(category) = Lower(c)

\* C8: with no text and only the filter category=c, every hit is a course
\* whose category equals c case-insensitively, and the courses of that
\* category are all returned, up to the limit
C8_Claim ==
  (Searched /\ OnlyCategory(ret.args)) =>
    /\ \A h \in Hits : h.type = "course" /\ SameCategory(h.category, ret.args.filter_category)
    /\ Len(ret.hits) =
         Min(ret.args.limit,
             Cardinality({d \in index_dir.courses :
                            SameCategory(d.category, ret.args.filter_category)}))

\* C9: a search with a tags filter returns the courses carrying at least one
\* of the requested tags and no course carrying none of them
C9_Claim ==
  (ret.op = "search_content_api" /\ ret.args.tags # {}) =>
    /\ ret.status = 200
    /\ \A h \in HitsOfType("course") :
         \E d \in DocsOf(index_dir.courses, h.id) : doc_tags(d) \cap ret.args.tags # {}

\* C10: a hit of a type is returned only when that type is enabled
C10_Theorem ==
  Searched => \A h \in Hits :
    /\ h.type = "teacher" => ret.args.search_in_teachers
    /\ h.type = "course" => ret.args.search_in_courses
    /\ h.type = "material" => ret.args.search_in_materials

\* teachers are disabled, a teacher named as the query is indexed, and the
\* search returns hits of the other types only
C10_Witness ==
  /\ Searched
  /\ ~ret.args.search_in_teachers
  /\ ret.args.query_str = "ann"
  /\ \E d \in index_dir.teachers : d.name = "Ann"
  /\ Hits # {}

\* the per-type result lists of the search a over the indexes as they are
CourseList(a) ==
  IF a.search_in_courses THEN try_except(course_section(index_dir.courses, a)).hits ELSE <<>>
MaterialList(a) ==
  IF a.search_in_materials THEN try_except(material_section(index_dir.materials, a)).hits
  ELSE <<>>
TeacherList(a) ==
  IF a.search_in_teachers THEN try_except(teacher_section(index_dir.teachers, a)).hits ELSE <<>>

\* the number of documents of a type the query of a matches, whatever the limit
MatchedCourses(a) == Len(CourseList([a EXCEPT !.limit = MaxCourseId]))
MatchedMaterials(a) == Len(MaterialList([a EXCEPT !.limit = MaxMaterialId]))

RECURSIVE FacetSum(_)
FacetSum(f) ==
  IF DOMAIN f = {} THEN 0
  ELSE LET v == CHOOSE x \in DOMAIN f : TRUE
       IN f[v] + FacetSum([x \in DOMAIN f \ {v} |-> f[x]])

\* C11: the counts of a single-valued facet (category, level, material type)
\* summed over its values equal the number of documents of that type the
\* query matches, after the filters and before the limit
C11_Claim ==
  Searched =>
    LET facets == search_whoosh_facets(index_dir, ret.args)
    IN /\ FacetSum(facets.categories) = MatchedCourses(ret.args)
       /\ FacetSum(facets.levels) = MatchedCourses(ret.args)
       /\ FacetSum(facets.material_types) = MatchedMaterials(ret.args)

Concatenation(a) == CourseList(a) \o MaterialList(a) \o TeacherList(a)
Dropped(a) == {h \in Range(Concatenation(a)) : h \notin Hits}

\* C12: the result is sorted by relevance_score, highest first, has at most
\* limit entries and is the limit highest-scored hits of the concatenation of
\* the per-type lists, each of which has at most limit hits
C12_Theorem ==
  Searched =>
    /\ \A i, j \in DOMAIN ret.hits :
         i < j => ret.hits[i].relevance_score >= ret.hits[j].relevance_score
    /\ Len(ret.hits) = Min(ret.args.limit, Len(Concatenation(ret.args)))
    /\ Hits \subseteq Range(Concatenation(ret.args))
    /\ \A d \in Dropped(ret.args) : \A h \in Hits : d.relevance_score <= h.relevance_score
    /\ Len(CourseList(ret.args)) <= ret.args.limit
    /\ Len(MaterialList(ret.args)) <= ret.args.limit
    /\ Len(TeacherList(ret.args)) <= ret.args.limit

\* the concatenation is longer than the limit and not in score order: a later
\* list holds a hit scored above one of an earlier list, and hits are dropped
C12_Witness ==
  /\ Searched
  /\ Len(Concatenation(ret.args)) > ret.args.limit
  /\ \E i, j \in DOMAIN Concatenation(ret.args) :
       /\ i < j
       /\ Concatenation(ret.args)[i].relevance_score < Concatenation(ret.args)[j].relevance_score
  /\ Dropped(ret.args) # {}

\* C13: a failed index write (I/O error, lock contention, no index handle) is
\* surfaced to the caller: a write call that returns normally has committed
C13_Claim ==
  (ret.op \in WriteOps /\ ret.status = "ok") => ret.args.committed

\* the writers between writer() and the end of commit(), per index
Holding(ix) ==
  {p \in Writers : procs[p].pc \in {"writing", "committing"} /\ procs[p].call.index = ix}

C15_Theorem ==
  LET r == procs[Reader]
  IN /\ \A ix \in IndexNames : index_dir[ix] \in commits[ix]
     /\ \A ix \in IndexNames : \A p \in Holding(ix) : index_dir[ix] = procs[p].before
     /\ r.pc \in {"courses", "teachers", "done"} => r.courses \in commits.courses
     /\ r.pc \in {"teachers", "done"} => r.teachers \in commits.teachers
     /\ r.pc = "done" =>
          \E C \in commits.courses, T \in commits.teachers :
            r.hits = search_whoosh(ix_courses, ix_materials, ix_teachers,
                                   [courses |-> C, materials |-> index_dir.materials,
                                    teachers |-> T], r.a).hits
     /\ \A ix \in IndexNames : \A docs \in commits[ix] : \A id \in IdsOf(ix) :
          Cardinality(DocsOf(docs, id)) <= 1

\* a searcher holds the old document of an id while a writer has buffered
\* another document for that id and not yet committed it
C15_Witness ==
  /\ procs[Reader].pc = "courses"
  /\ DocsOf(procs[Reader].courses, 1) # {}
  /\ \E p \in Writers :
       /\ procs[p].pc = "committing"
       /\ procs[p].call.op = "index_course_item"
       /\ procs[p].call.doc \notin procs[Reader].courses

\* C16: when a full rebuild fails partway, the documents written so far stay
\* in the indexes and the answer carries the number of documents indexed so
\* far for each entity type
C16_Claim ==
  (ret.op = "trigger_full_reindex_api" /\ ret.status = 500) =>
    /\ {"courses", "materials", "teachers"} \subseteq DOMAIN ret.args.body
    /\ ret.args.body.courses = Cardinality(index_dir.courses)
    /\ ret.args.body.materials = Cardinality(index_dir.materials)
    /\ ret.args.body.teachers = Cardinality(index_dir.teachers)

\* C17: a delete of an id that has no document in the index raises nothing
\* and leaves the documents of all three indexes as they were
C17_Theorem ==
  [][(/\ ret'.op = "delete_item_from_index"
      /\ ret'.args.index # None
      /\ ret'.args.db_id \notin DocIds(index_dir[ret'.args.index]))
     => (index_dir' = index_dir /\ ret'.status = "ok")]_vars

\* a delete of an absent id has returned, on an index that holds documents
C17_Witness ==
  /\ ret.op = "delete_item_from_index"
  /\ ret.args.index # None
  /\ issued[ret.args.index][ret.args.db_id] = Deleted(FALSE)
  /\ index_dir[ret.args.index] # {}

\* C18: opening the indexes never fails: whatever the directories hold
\* (nothing, no index, a damaged index, a valid index), every index ends up
\* open and usable; a valid index keeps its documents, the others are empty
C18_Claim ==
  ret.op = "startup_event" =>
    /\ ~ret.args.error
    /\ ix_courses # None /\ ix_materials # None /\ ix_teachers # None
    /\ \A ix \in IndexNames : disk[ix] = "valid"

\* the search a with the types whose index cannot be read switched off
ReadableOnly(a) ==
  [a EXCEPT !.search_in_courses = @ /\ disk.courses = "valid",
            !.search_in_materials = @ /\ disk.materials = "valid",
            !.search_in_teachers = @ /\ disk.teachers = "valid"]

AllOpen == ix_courses # None /\ ix_materials # None /\ ix_teachers # None

\* C19: a search over open indexes does not fail when the index of a type
\* cannot be searched: it returns what the same search returns with that
\* type switched off, the hits of the other enabled types
C19_Theorem ==
  (Searched /\ AllOpen) =>
    /\ ret.status = "ok"
    /\ ret.hits = search_whoosh(ix_courses, ix_materials, ix_teachers, index_dir,
                                ReadableOnly(ret.args)).hits

\* the index of an enabled type could not be searched, it holds a document,
\* and the search has returned a hit of another type
C19_Witness ==
  /\ Searched
  /\ AllOpen
  /\ disk.courses = "corrupt"
  /\ index_dir.courses # {}
  /\ ret.args.search_in_courses
  /\ \E h \in Hits : h.type # "course"

UpsertOps == {"index_course_item", "index_material_item", "index_teacher_item"}

\* the document the last upsert wrote
LastWritten ==
  CHOOSE d \in DocsOf(index_dir[TypeIndex(CASE ret.op = "index_course_item" -> "course"
                                            [] ret.op = "index_material_item" -> "material"
                                            [] OTHER -> "teacher")],
                      ret.args.db_id) : TRUE

TextOnly(a) == Truthy(a.query_str) /\ ~ParseRaises(a.query_str) /\ NoFilters(a)

\* the hit list has room left: nothing was cut off by the limit
Uncut == Len(ret.hits) < ret.args.limit

\* C22: a free text matches a course when it occurs in its title, teacher
\* name, category or level (description and tags are no fields of a course
\* document), a material when it occurs in its title or course title, a
\* teacher when it occurs in the name: the hits of a type are the documents
\* with the text in one of these fields
C22_Claim ==
  (Searched /\ TextOnly(ret.args)) =>
    /\ \A h \in HitsOfType("course") :
         LiteralIn(ret.args.query_str, {h.title, h.teacher_name, h.category, h.level})
    /\ \A h \in HitsOfType("material") :
         LiteralIn(ret.args.query_str, {h.title, h.course_title})
    /\ \A h \in HitsOfType("teacher") : LiteralIn(ret.args.query_str, {h.title})
    /\ (Uncut /\ ret.args.search_in_courses) =>
         \A d \in index_dir.courses :
           LiteralIn(ret.args.query_str, {d.title, d.teacher_name, d.category, d.level})
             => \E h \in HitsOfType("course") : ToStr(h.id) = d.db_id
    /\ (Uncut /\ ret.args.search_in_materials) =>
         \A d \in index_dir.materials :
           LiteralIn(ret.args.query_str, {d.title, d.course_title_ref})
             => \E h \in HitsOfType("material") : ToStr(h.id) = d.db_id
    /\ (Uncut /\ ret.args.search_in_teachers) =>
         \A d \in index_dir.teachers :
           LiteralIn(ret.args.query_str, {d.name})
             => \E h \in HitsOfType("teacher") : ToStr(h.id) = d.db_id

\* a search by filters alone
FilterOnly(a) == ~Truthy(a.query_str) /\ ~NoFilters(a)

\* is the type of index ix enabled in the search a
EnabledIn(ix, a) ==
  CASE ix = "courses" -> a.search_in_courses
    [] ix = "materials" -> a.search_in_materials
    [] ix = "teachers" -> a.search_in_teachers

\* does one of the supplied filters of a apply to the documents of index ix
FilterApplies(ix, a) ==
  CASE ix = "courses" ->
         Truthy(a.filter_category) \/ Truthy(a.filter_level) \/ Truthy(a.filter_teacher_name)
    [] ix = "materials" -> Truthy(a.filter_material_type)
    [] ix = "teachers" -> Truthy(a.filter_teacher_name)

\* C23: without free text but with a filter, an enabled type to which none
\* of the supplied filters applies is matched by the match-all clause alone:
\* all its documents are returned, as far as the limit leaves room
C23_Claim ==
  (Searched /\ FilterOnly(ret.args)) =>
    \A ix \in IndexNames :
      (EnabledIn(ix, ret.args) /\ ~FilterApplies(ix, ret.args) /\ Uncut) =>
        \A d \in index_dir[ix] :
          \E h \in Hits : TypeIndex(h.type) = ix /\ ToStr(h.id) = d.db_id

\* the rebuild is between the reset of index ix and the end of its
\* repopulation
Rebuilding(ix) ==
  CASE ix = "courses" -> procs[Rebuilder].pc = "courses"
    [] ix = "materials" -> procs[Rebuilder].pc \in {"courses", "materials"}
    [] ix = "teachers" -> procs[Rebuilder].pc \in {"courses", "materials", "teachers"}

\* C24: between the reset of an index and the end of its repopulation no
\* step of another request changes the documents of that index
C24_Claim ==
  [][\A ix \in IndexNames :
       (Rebuilding(ix) /\ procs' = procs) => index_dir'[ix] = index_dir[ix]]_vars

\* the teacher hits are the teachers with a word of text in their name, as
\* far as the limit leaves room
TeachersNamed(text) ==
  /\ \A h \in HitsOfType("teacher") : LiteralIn(text, {h.title})
  /\ Uncut => \A d \in index_dir.teachers :
       LiteralIn(text, {d.name}) => \E h \in HitsOfType("teacher") : ToStr(h.id) = d.db_id

\* C25: in the teacher search a supplied filter_teacher_name replaces the
\* free text: the teacher hits are the teachers whose name matches the
\* filter, whatever query_str is; query_str is used only when the filter is
\* empty
C25_Theorem ==
  (Searched /\ ret.args.search_in_teachers) =>
    /\ Truthy(ret.args.filter_teacher_name) => TeachersNamed(ret.args.filter_teacher_name)
    /\ (~Truthy(ret.args.filter_teacher_name) /\ Truthy(ret.args.query_str)) =>
         TeachersNamed(ret.args.query_str)

\* text and teacher filter are both given, the text is in no teacher's name,
\* and the teacher named by the filter is returned while another is not
C25_Witness ==
  /\ Searched
  /\ ret.args.query_str = "py"
  /\ ret.args.filter_teacher_name = "Ann"
  /\ \E h \in HitsOfType("teacher") : h.title = "Ann"
  /\ \E d \in index_dir.teachers : d.name = "Bob"
  /\ Uncut

\* the handlers that commit a row and then upsert its document
CommitThenIndexOps ==
  {"register_new_user_api", "create_course_api", "update_course_api", "create_material_api"}

\* C26: in a step of register_new_user_api, create_course_api,
\* update_course_api or create_material_api an index document is written
\* only for an entity whose row the database holds after the step: when the
\* commit fails nothing is written to any index
C26_Theorem ==
  [][ret'.op \in CommitThenIndexOps =>
       /\ \A id \in UserIds :
            DocsOf(index_dir'.teachers, id) # DocsOf(index_dir.teachers, id) =>
              (id \in DOMAIN db_users' /\ db_users'[id].role = "teacher")
       /\ \A id \in CourseIds :
            DocsOf(index_dir'.courses, id) # DocsOf(index_dir.courses, id) =>
              id \in DOMAIN db_courses'
       /\ \A id \in MaterialIds :
            DocsOf(index_dir'.materials, id) # DocsOf(index_dir.materials, id) =>
              id \in DOMAIN db_materials'
       /\ (ret'.status = 500 /\ db_users' = db_users /\ db_courses' = db_courses
           /\ db_materials' = db_materials) => index_dir' = index_dir]_vars

\* a teacher was registered and indexed, and the registration of a second
\* teacher failed at the commit and left no document
C26_Witness ==
  /\ ret.op = "register_new_user_api"
  /\ ret.status = 500
  /\ ret.args.role = "teacher"
  /\ DOMAIN db_users = {1}
  /\ DocIds(index_dir.teachers) = {1}

\* C27: after a successful delete_course_api of course c the materials
\* index holds no document of a material of c
C27_Claim ==
  (ret.op = "delete_course_api" /\ ret.status = 204) =>
    \A d \in index_dir.materials : d.course_id_ref # ToStr(ret.args.id)

\* C28: init_whoosh_indexes, run at startup or lazily by search_whoosh,
\* opens a valid index as it is: the documents of every index that was valid
\* on disk are the same before and after, and the index stays valid
C28_Theorem ==
  [][ret'.op \in {"startup_event", "search_whoosh"} =>
       \A ix \in IndexNames :
         disk[ix] = "valid" => (index_dir'[ix] = index_dir[ix] /\ disk'[ix] = "valid")]_vars

\* the initialisation has run without error over three valid, populated
\* indexes, and each is open and holds the documents it held on disk
C28_Witness ==
  /\ ret.op \in {"startup_event", "search_whoosh"}
  /\ ret.status = "ok"
  /\ AllOpen
  /\ \A ix \in IndexNames : disk[ix] = "valid" /\ index_dir[ix] = SomeDocs[ix]

\* C29: after every step every document of the teachers index has the id
\* of a database user whose role is teacher, and the registration of a
\* student or an admin leaves the three indexes as they were
C29_Theorem ==
  [][/\ \A d \in index_dir'.teachers :
          /\ ToInt(d.db_id) \in DOMAIN db_users'
          /\ db_users'[ToInt(d.db_id)].role = "teacher"
     /\ (ret'.op = "register_new_user_api" /\ ret'.args.role # "teacher") =>
          index_dir' = index_dir]_vars

\* a full reindex has run through with an admin and a teacher in the
\* database, and the teachers index holds a document
C29_Witness ==
  /\ ret.op = "trigger_full_reindex_api"
  /\ ret.status = 202
  /\ \E id \in DOMAIN db_users : db_users[id].role = "admin"
  /\ index_dir.teachers # {}

OwnerCheckedOps == {"update_course_api", "delete_course_api", "create_material_api"}

\* the course a request of one of these handlers is about
CourseOf(r) == IF r.op = "create_material_api" THEN r.args.course_id ELSE r.args.id

\* C30: a request of update_course_api, delete_course_api or
\* create_material_api by a user of role teacher for an existing course
\* whose teacher_id is not that user is answered 403 and changes neither
\* the database rows nor the documents of the three indexes
C30_Theorem ==
  [][(/\ ret'.op \in OwnerCheckedOps
      /\ db_users[ret'.args.current_user].role = "teacher"
      /\ CourseOf(ret') \in DOMAIN db_courses
      /\ db_courses[CourseOf(ret')].teacher_id # ret'.args.current_user)
     => (/\ ret'.status = 403
         /\ UNCHANGED <<db_users, db_courses, db_materials, index_dir>>)]_vars

\* a teacher was refused the deletion of a course that is not theirs, and
\* the course, its material and their documents are still there
C30_Witness ==
  /\ ret.op = "delete_course_api"
  /\ ret.status = 403
  /\ db_users[ret.args.current_user].role = "teacher"
  /\ ret.args.id \in DOMAIN db_courses
  /\ db_courses[ret.args.id].teacher_id # ret.args.current_user
  /\ MaterialsOf(ret.args.id) # {}
  /\ ret.args.id \in DocIds(index_dir.courses)

=============================================================================
